---- MODULE Spec2Model ----
(***************************************************************************)
(* Model of tuition_scrape.py: the resumable geocoding cache (get_states), *)
(* the per-university review fetch (get_rating), the rating normaliser     *)
(* (parse_ratings) and the tuition/score join (plot_linear_regression).    *)
(*                                                                         *)
(* Strings are sequences of one-character strings.  A Python dict is a set *)
(* of <<key, value>> pairs with at most one pair per key.                  *)
(***************************************************************************)
EXTENDS Integers, Sequences, FiniteSets, TLC

\* ------------------------------------------------------------------ bounds
NumNames == 6
MaxJoinNames == 4
MaxRatings == 2
MaxTokLen == 3

\* ------------------------------------------------------- program constants
SaveEveryMut == 5 + 1
SaveEvery == 5

ShouldSaveMut(m) == (Cardinality(m) + 1) % SaveEvery = 0
ShouldSave(m) == Cardinality(m) % SaveEvery = 0

MaxRetriesMut == 3 + 1
MaxRetries == 3

RetryWait == 2
CourtesyWait == 1

StateIndexMut == 3 - 1
StateIndex == 3

Names == 1..NumNames

\* ------------------------------------------------------------ string helpers
IsSpace(c) == c \in {" ", "\t", "\n"}

RECURSIVE LStrip(_)
LStrip(s) ==
    IF s # <<>> /\ IsSpace(Head(s)) THEN LStrip(Tail(s)) ELSE s

RECURSIVE RStrip(_)
RStrip(s) ==
    IF s # <<>> /\ IsSpace(s[Len(s)]) THEN RStrip(SubSeq(s, 1, Len(s) - 1)) ELSE s

\* str.strip()
Strip(s) == LStrip(RStrip(s))

\* str.split(sep): the list of the pieces between the occurrences of sep
RECURSIVE SplitFrom(_, _, _, _)
SplitFrom(s, sep, cur, acc) ==
    IF s = <<>> THEN Append(acc, cur)
    ELSE IF Head(s) = sep THEN SplitFrom(Tail(s), sep, <<>>, Append(acc, cur))
    ELSE SplitFrom(Tail(s), sep, Append(cur, Head(s)), acc)

Split(s, sep) == SplitFrom(s, sep, <<>>, <<>>)

\* `sub in s` for a one-character sub
Contains(s, c) == \E k \in 1..Len(s) : s[k] = c

\* ------------------------------------------------------------- dict helpers
Keys(m) == {p[1] : p \in m}

Get(m, k) == (CHOOSE p \in m : p[1] = k)[2]

Put(m, k, v) == {p \in m : p[1] # k} \cup {<<k, v>>}

\* =================================================================
\* get_states
\* =================================================================
Unknown == <<"U", "n", "k", "n", "o", "w", "n">>

\* addresses the geocoder may return
AddrFour == <<"x", ",", " ", "M", "A", ",", " ", "0", ",", " ", "U", "S">>
AddrThree == <<"M", "A", " ", ",", "0", ",", "U", "S">>
AddrTwo == <<"0", ",", "U", "S">>
AddrOne == <<"U", "S">>
Addresses == {AddrFour, AddrThree, AddrTwo, AddrOne}

\* address.split(",")[-3] raises IndexError with fewer than 3 pieces
HasState(address) == Len(Split(address, ",")) >= StateIndex

\* address.split(",")[-3].strip()
ExtractState(address) ==
    LET parts == Split(address, ",")
    IN  Strip(parts[Len(parts) + 1 - StateIndex])

VARIABLES
    \* get_states
    cache_file,         \* [exists, data]: the JSON file at cache_file
    tuition,            \* the keys of the tuition argument, in dict order
    university_states,  \* the in-memory mapping
    idx,                \* position of the for loop in tuition
    university,         \* the loop variable
    retries,            \* the retry counter (dead, and cleared, once the iteration
                        \* ends: line 176 sets it before its next read)
    location,           \* outcome of this iteration's last geocode call (dead, and
                        \* cleared, once the iteration ends)
    pc,                 \* position in get_states
    returned,           \* the value returned by the last call
    loaded,             \* history: the mapping as loaded at the start of the call
    geocoded,           \* history: names geocode was called for during the call
    resolved,           \* history: entries inserted during the call
    exhausted,          \* history: names whose retries ran out during the call
    attempts,           \* history: geocode calls made in the current iteration
    slept,              \* history: duration of the last time.sleep call
    \* get_rating
    r_universities,     \* the keys of the university_states argument, in dict order
    r_idx,              \* position of the for loop
    ratings,            \* the ratings dict
    missing_universities, \* names whose fetch raised
    r_pc,               \* position in get_rating
    \* parse_ratings
    ratings_len,        \* length of the university's list in uni_ratings
    rating,             \* the loop variable: the current token
    new_ratings,        \* the list being built
    cleaned_ratings,    \* the result dict
    p_pc,               \* position in parse_ratings
    \* plot_linear_regression
    tuition_data,       \* dict loaded from tuition_file
    edu_scores,         \* dict loaded from edu_scores_file
    common_unis,        \* members of the set not yet iterated
    x,                  \* tuition fees
    y,                  \* educational scores
    names,              \* university names
    j_pc                \* position in plot_linear_regression

varsStates == <<cache_file, tuition, university_states, idx, university, retries,
                location, pc, returned, loaded, geocoded, resolved, exhausted,
                attempts, slept>>
varsRating == <<r_universities, r_idx, ratings, missing_universities, r_pc>>
varsParse == <<ratings_len, rating, new_ratings, cleaned_ratings, p_pc>>
varsJoin == <<tuition_data, edu_scores, common_unis, x, y, names, j_pc>>
vars == <<varsStates, varsRating, varsParse, varsJoin>>

FileOf(m) == [exists |-> TRUE, data |-> m]
NoFile == [exists |-> FALSE, data |-> {}]

\* geocode outcomes
NoCall == [kind |-> "nocall", address |-> <<>>]
Raised == [kind |-> "raise", address |-> <<>>]
NoLocation == [kind |-> "none", address |-> <<>>]
Located(address) == [kind |-> "location", address |-> address]

TuitionLists == {[k \in 1..n |-> k] : n \in 0..NumNames}

\* not yet called
StatesIdle ==
    /\ cache_file = NoFile
    /\ tuition = <<>>
    /\ university_states = {}
    /\ idx = 0
    /\ university = 0
    /\ retries = 0
    /\ location = NoCall
    /\ pc = "call"
    /\ returned = {}
    /\ loaded = {}
    /\ geocoded = {}
    /\ resolved = {}
    /\ exhausted = {}
    /\ attempts = 0
    /\ slept = 0

RatingIdle ==
    /\ r_universities = <<>>
    /\ r_idx = 0
    /\ ratings = {}
    /\ missing_universities = <<>>
    /\ r_pc = "call"

ParseIdle ==
    /\ ratings_len = 0
    /\ rating = [kind |-> "null", text |-> <<>>]
    /\ new_ratings = <<>>
    /\ cleaned_ratings = {}
    /\ p_pc = "call"

JoinIdle ==
    /\ tuition_data = {}
    /\ edu_scores = {}
    /\ common_unis = {}
    /\ x = <<>>
    /\ y = <<>>
    /\ names = <<>>
    /\ j_pc = "call"

\* lines 156, 163-170: a call with some tuition dict loads the cache file, or
\* starts empty
Load ==
    /\ pc \in {"call", "done"}
    /\ tuition' \in TuitionLists
    /\ university_states' = IF cache_file.exists THEN cache_file.data ELSE {}
    /\ loaded' = university_states'
    /\ geocoded' = {}
    /\ resolved' = {}
    /\ exhausted' = {}
    /\ idx' = 1
    /\ university' = 0
    /\ retries' = 0
    /\ location' = NoCall
    /\ attempts' = 0
    /\ slept' = 0
    /\ returned' = {}
    /\ pc' = "for"
    /\ UNCHANGED <<cache_file, varsRating, varsParse, varsJoin>>

IsCachedMut(u, m) == FALSE
IsCached(u, m) == u \in Keys(m)

\* lines 172-176: next name; a cached one is skipped
ForNext ==
    /\ pc = "for"
    /\ idx <= Len(tuition)
    /\ university' = tuition[idx]
    /\ IF IsCached(tuition[idx], university_states)
       THEN /\ idx' = idx + 1
            /\ pc' = "for"
            /\ UNCHANGED retries
       ELSE /\ retries' = MaxRetries
            /\ pc' = "while"
            /\ UNCHANGED idx
    /\ UNCHANGED <<cache_file, tuition, university_states, location, returned, loaded,
                   geocoded, resolved, exhausted, attempts, slept, varsRating,
                   varsParse, varsJoin>>

\* lines 182-183 and 185-187: store, leave the retry loop
Store(state) ==
    /\ university_states' = Put(university_states, university, state)
    /\ resolved' = resolved \cup {<<university, state>>}
    /\ geocoded' = geocoded \cup {university}
    /\ attempts' = attempts + 1
    /\ pc' = "save"
    /\ UNCHANGED <<cache_file, tuition, idx, university, retries, returned, loaded,
                   exhausted, slept, varsRating, varsParse, varsJoin>>

\* lines 188-191 and the loop test of line 177
Failed ==
    /\ geocoded' = geocoded \cup {university}
    /\ attempts' = attempts + 1
    /\ retries' = retries - 1
    /\ slept' = RetryWait
    /\ pc' = IF retries' > 0 THEN "while" ELSE "save"
    /\ exhausted' = IF retries' > 0 THEN exhausted ELSE exhausted \cup {university}
    /\ UNCHANGED <<cache_file, tuition, university_states, idx, university, returned,
                   loaded, resolved, varsRating, varsParse, varsJoin>>

\* lines 179-183, 187: geocode returns a location whose address has a state piece
GeocodeLocation ==
    /\ pc = "while"
    /\ retries > 0
    /\ \E address \in Addresses :
         /\ HasState(address)
         /\ location' = Located(address)
         /\ Store(ExtractState(address))

\* lines 179-180, 184-187: geocode returns None
GeocodeNone ==
    /\ pc = "while"
    /\ retries > 0
    /\ location' = NoLocation
    /\ Store(Unknown)

\* lines 179, 188-191: geocode raises
GeocodeRaises ==
    /\ pc = "while"
    /\ retries > 0
    /\ location' = Raised
    /\ Failed

\* lines 179-181, 188-191: the address has no third-from-last piece; the
\* IndexError of line 181 is caught by the handler of line 188
GeocodeShortAddress ==
    /\ pc = "while"
    /\ retries > 0
    /\ \E address \in Addresses :
         /\ ~HasState(address)
         /\ location' = Located(address)
    /\ Failed

\* lines 193-198: periodic save, then the courtesy sleep.  The iteration is
\* over: its locals retries and location are dead until lines 176 and 179
\* set them again, and are cleared together with the attempt count.
SaveProgress ==
    /\ pc = "save"
    /\ cache_file' = IF ShouldSave(university_states)
                     THEN FileOf(university_states)
                     ELSE cache_file
    /\ slept' = CourtesyWait
    /\ location' = NoCall
    /\ retries' = 0
    /\ attempts' = 0
    /\ idx' = idx + 1
    /\ pc' = "for"
    /\ UNCHANGED <<tuition, university_states, university, returned, loaded, geocoded,
                   resolved, exhausted, varsRating, varsParse, varsJoin>>

FinalFileMut(m, f) == f
FinalFile(m, f) == FileOf(m)

\* lines 200-204: final save and return
FinalSave ==
    /\ pc = "for"
    /\ idx > Len(tuition)
    /\ cache_file' = FinalFile(university_states, cache_file)
    /\ returned' = university_states
    /\ pc' = "done"
    /\ UNCHANGED <<tuition, university_states, idx, university, retries, location,
                   loaded, geocoded, resolved, exhausted, attempts, slept, varsRating,
                   varsParse, varsJoin>>

Init == StatesIdle /\ RatingIdle /\ ParseIdle /\ JoinIdle

Next ==
    \/ Load
    \/ ForNext
    \/ GeocodeLocation
    \/ GeocodeNone
    \/ GeocodeRaises
    \/ GeocodeShortAddress
    \/ SaveProgress
    \/ FinalSave

Spec == Init /\ [][Next]_vars

TypeOK ==
    /\ pc \in {"call", "for", "while", "save", "done"}
    /\ retries \in 0..MaxRetries
    /\ Keys(university_states) \subseteq Names
    /\ Cardinality(Keys(university_states)) = Cardinality(university_states)

\* ------------------------------------------------------ claims on get_states
Requested == {tuition[k] : k \in 1..Len(tuition)}

\* C1: a requested name that is a key of the loaded mapping is never geocoded
\* and keeps its loaded value in memory, in the returned mapping and in the
\* file; when every requested name is cached the call makes no geocode call
\* and returns the loaded mapping, at every repetition of the call.
C1_CachedNamesUntouched ==
    /\ geocoded \cap Keys(loaded) = {}
    /\ pc \in {"for", "while", "save", "done"} => loaded \subseteq university_states
    /\ pc = "done" =>
         /\ loaded \subseteq returned
         /\ loaded \subseteq cache_file.data
         /\ \A u \in Keys(loaded) : Cardinality({p \in returned : p[1] = u}) = 1
         /\ Requested \subseteq Keys(loaded) => geocoded = {} /\ returned = loaded

\* a call that found one requested name cached and geocoded another
C1_Witness ==
    /\ pc = "done"
    /\ Requested \cap Keys(loaded) # {}
    /\ Requested \cap geocoded # {}

\* C2: on return the cache file holds exactly the returned mapping, which
\* contains every entry of the file at start and every entry resolved during
\* the call, whatever the final number of entries.
C2_FileIsReturnedMapping ==
    pc = "done" =>
        /\ cache_file = FileOf(returned)
        /\ loaded \subseteq returned
        /\ resolved \subseteq returned

\* a return after resolving exactly 5 new names on top of a pre-existing entry
C2_Witness ==
    /\ pc = "done"
    /\ Cardinality(resolved) = 5
    /\ loaded # {}
    /\ Cardinality(returned) % 5 # 0

\* C3: after an insertion that brings the number of entries to a multiple of
\* 5, the whole mapping is written to the file before the next name.
C3_SaveOnMultipleOfFive ==
    [][(/\ pc = "save"
        /\ university \in Keys(university_states)
        /\ Cardinality(university_states) % 5 = 0)
       => (cache_file' = FileOf(university_states) /\ pc' = "for")]_vars

\* between two names, a file written by the periodic save of this call
C3_Witness ==
    /\ pc = "for"
    /\ idx <= Len(tuition)
    /\ resolved # {}
    /\ Cardinality(university_states) = 5
    /\ cache_file = FileOf(university_states)

\* the last geocode call of the iteration failed
LastFailed ==
    \/ location.kind = "raise"
    \/ location.kind = "location" /\ Len(Split(location.address, ",")) < 3

\* C4: at most 3 geocode attempts per uncached name; a failed attempt is
\* followed by a 2-unit wait, and by a retry while fewer than 3 were made;
\* after 3 failures nothing is recorded for the name, neither in the returned
\* mapping nor in the file, and the loop moves on.
C4_BoundedRetries ==
    /\ attempts <= 3
    /\ (pc \in {"while", "save"} /\ LastFailed) =>
         /\ slept = 2
         /\ university \notin Keys(university_states)
         /\ (attempts < 3 <=> pc = "while")
         /\ (attempts = 3 <=> university \in exhausted)
    /\ pc = "while" => attempts < 3
    /\ Keys(university_states) \cap exhausted = {}
    /\ pc = "done" =>
         /\ Keys(returned) \cap exhausted = {}
         /\ Keys(cache_file.data) \cap exhausted = {}

\* a return after the retries of some name ran out
C4_Witness ==
    /\ pc = "done"
    /\ exhausted # {}
    /\ resolved # {}

\* the last two commas of an address and the piece before them
Commas(s) == {k \in 1..Len(s) : s[k] = ","}
Last(S) == CHOOSE k \in S : \A j \in S : j <= k
ThirdFromLast(s) ==
    LET c3 == Last(Commas(s))
        c2 == Last(Commas(s) \ {c3})
        rest == Commas(s) \ {c3, c2}
        c1 == IF rest = {} THEN 0 ELSE Last(rest)
    IN  SubSeq(s, c1 + 1, c2 - 1)
\* v is t without its leading and trailing blanks
IsTrimOf(v, t) ==
    /\ v = <<>> \/ (Head(v) # " " /\ v[Len(v)] # " ")
    /\ \E a \in 0..Len(t) : \E b \in 0..Len(t) :
         /\ a + Len(v) + b = Len(t)
         /\ \A k \in 1..Len(t) :
              IF k <= a \/ k > a + Len(v) THEN t[k] = " " ELSE t[k] = v[k - a]

\* C5 as stated: every address geocode returns gets its third-from-last piece
\* stored, and ends the attempts for the name.
C5_EveryAddressStored ==
    (pc \in {"while", "save"} /\ location.kind = "location") =>
        /\ pc = "save"
        /\ university \in Keys(university_states)

\* C5 amended: an address with at least three comma-separated pieces gets the
\* trimmed third-from-last piece stored, a missing location gets "Unknown"
\* stored, and both end the attempts for the name; an address with fewer
\* pieces counts as a failed attempt.
C5_StateStored ==
    /\ (pc = "save" /\ location.kind = "location"
          /\ Cardinality(Commas(location.address)) >= 2) =>
         /\ university \in Keys(university_states)
         /\ IsTrimOf(Get(university_states, university), ThirdFromLast(location.address))
    /\ (pc = "while" /\ location.kind = "location") =>
         Cardinality(Commas(location.address)) < 2
    /\ (pc \in {"while", "save"} /\ location.kind = "location"
          /\ Cardinality(Commas(location.address)) < 2) =>
         /\ university \notin Keys(university_states)
         /\ attempts = MaxRetries - retries
    /\ (pc \in {"while", "save"} /\ location.kind = "none") =>
         /\ pc = "save"
         /\ Get(university_states, university) = <<"U", "n", "k", "n", "o", "w", "n">>

\* an address with blanks around its state piece was stored
C5_Witness ==
    /\ pc = "save"
    /\ location = Located(AddrFour)
    /\ Get(university_states, university) = <<"M", "A">>

\* C6 as stated, get_states half: a name whose geocode calls all failed is
\* recorded as "Unknown", so every requested name has an entry on return;
\* get_rating half: every input name has an entry in ratings.
C6_EveryNameHasEntry ==
    /\ pc = "done" =>
         /\ Requested \subseteq Keys(returned)
         /\ \A u \in exhausted : <<u, Unknown>> \in returned
    /\ r_pc = "done" =>
         {r_universities[k] : k \in 1..Len(r_universities)} \subseteq Keys(ratings)

\* C10: between loop iterations the file holds every loaded entry and lacks
\* at most 4 entries of the in-memory mapping.
C10_AtMostFourUnsaved ==
    pc = "for" =>
        /\ loaded \subseteq cache_file.data
        /\ Cardinality(university_states \ cache_file.data) <= 4

\* four resolved entries not yet in the existing file
C10_Witness ==
    /\ pc = "for"
    /\ cache_file.exists
    /\ Cardinality(university_states \ cache_file.data) = 4

\* =================================================================
\* get_rating
\* =================================================================
NA == <<"N", "A">>

\* texts of the rating spans a review page may hold
RatingPages == {<< <<"7", "/", "1", "0">> >>,
                << <<"9", "/", "1", "0">>, <<"7", "/", "1", "0">> >>}

\* lines 76-77, 87: a call with some university_states dict
RatingLoad ==
    /\ r_pc \in {"call", "done"}
    /\ r_universities' \in TuitionLists
    /\ ratings' = {}
    /\ missing_universities' = <<>>
    /\ r_idx' = 1
    /\ r_pc' = "for"
    /\ UNCHANGED <<varsStates, varsParse, varsJoin>>

\* lines 99 and 111: the entry of the current name, then the next name
Rate(texts) ==
    /\ ratings' = Put(ratings, r_universities[r_idx], texts)
    /\ r_idx' = r_idx + 1
    /\ UNCHANGED <<r_universities, r_pc, varsStates, varsParse, varsJoin>>

\* lines 94-100: the page has rating spans
FetchRatings ==
    /\ r_pc = "for"
    /\ r_idx <= Len(r_universities)
    /\ \E texts \in RatingPages : Rate(texts)
    /\ UNCHANGED missing_universities

\* lines 94-100: the page has no rating span
FetchNoSpans ==
    /\ r_pc = "for"
    /\ r_idx <= Len(r_universities)
    /\ Rate(<<NA>>)
    /\ UNCHANGED missing_universities

\* lines 101-104: raise_for_status raises HTTPError
FetchHTTPError ==
    /\ r_pc = "for"
    /\ r_idx <= Len(r_universities)
    /\ Rate(<<NA>>)
    /\ missing_universities' = Append(missing_universities, r_universities[r_idx])

\* lines 105-108: any other exception of the fetch
FetchOtherError ==
    /\ r_pc = "for"
    /\ r_idx <= Len(r_universities)
    /\ Rate(<<NA>>)
    /\ missing_universities' = Append(missing_universities, r_universities[r_idx])

\* lines 113-117
RatingReturn ==
    /\ r_pc = "for"
    /\ r_idx > Len(r_universities)
    /\ r_pc' = "done"
    /\ UNCHANGED <<r_universities, r_idx, ratings, missing_universities, varsStates,
                   varsParse, varsJoin>>

NextRating ==
    \/ RatingLoad
    \/ FetchRatings
    \/ FetchNoSpans
    \/ FetchHTTPError
    \/ FetchOtherError
    \/ RatingReturn

SpecRating == Init /\ [][NextRating]_vars

\* get_rating half of C6: every input name has an entry, ["NA"] after an error
RatingEveryNameHasEntry ==
    r_pc = "done" =>
        /\ {r_universities[k] : k \in 1..Len(r_universities)} = Keys(ratings)
        /\ \A k \in 1..Len(missing_universities) :
             <<missing_universities[k], <<NA>> >> \in ratings

\* =================================================================
\* parse_ratings
\* =================================================================
TokenChars == {"7", "/", "a", "-", " "}

StrToken(text) == [kind |-> "str", text |-> text]
NullToken == [kind |-> "null", text |-> <<>>]
NumberToken == [kind |-> "number", text |-> <<"7">>]

ExampleTokens == {StrToken(<<"7", "/", "1", "0">>),
                  StrToken(<<"N", "A">>),
                  StrToken(<<"a", "b", "c", "/", "1", "0">>),
                  StrToken(<<"-", "3", "/", "1", "0">>)}

Tokens ==
    {StrToken(t) : t \in UNION {[1..n -> TokenChars] : n \in 0..MaxTokLen}}
        \cup ExampleTokens \cup {NullToken, NumberToken}

DigitChars == <<"0", "1", "2", "3", "4", "5", "6", "7", "8", "9">>
IsDigit(c) == \E k \in 1..Len(DigitChars) : DigitChars[k] = c
DigitVal(c) == (CHOOSE k \in 1..Len(DigitChars) : DigitChars[k] = c) - 1

Unsigned(s) == IF s # <<>> /\ Head(s) \in {"+", "-"} THEN Tail(s) ELSE s

\* int(s) does not raise ValueError: blanks around, an optional sign, digits
\* with single underscores between them
IsIntLiteral(s) ==
    LET d == Unsigned(Strip(s))
    IN  /\ d # <<>>
        /\ IsDigit(d[1])
        /\ IsDigit(d[Len(d)])
        /\ \A k \in 1..Len(d) : IsDigit(d[k]) \/ d[k] = "_"
        /\ \A k \in 1..(Len(d) - 1) : ~(d[k] = "_" /\ d[k + 1] = "_")

RECURSIVE DigitsValue(_)
DigitsValue(d) ==
    IF d = <<>> THEN 0
    ELSE IF d[Len(d)] = "_" THEN DigitsValue(SubSeq(d, 1, Len(d) - 1))
    ELSE DigitsValue(SubSeq(d, 1, Len(d) - 1)) * 10 + DigitVal(d[Len(d)])

\* int(s) of an s it accepts
IntValue(s) ==
    LET b == Strip(s)
    IN  IF Head(b) = "-" THEN 0 - DigitsValue(Unsigned(b)) ELSE DigitsValue(Unsigned(b))

\* lines 132-140: the value appended for one token
ParseRating(t) ==
    IF t.kind = "str" /\ Contains(t.text, "/")
    THEN IF IsIntLiteral(Split(t.text, "/")[1])
         THEN IntValue(Split(t.text, "/")[1])
         ELSE 0
    ELSE 0

\* lines 125-129: the file holds one university, with a list of some length
ParseLoad ==
    /\ p_pc \in {"call", "done"}
    /\ ratings_len' \in 0..MaxRatings
    /\ rating' = NullToken
    /\ new_ratings' = <<>>
    /\ cleaned_ratings' = {}
    /\ p_pc' = "for"
    /\ UNCHANGED <<varsStates, varsRating, varsJoin>>

\* lines 130-140: the next token of the list
ParseToken ==
    /\ p_pc = "for"
    /\ Len(new_ratings) < ratings_len
    /\ \E t \in Tokens :
         /\ rating' = t
         /\ new_ratings' = Append(new_ratings, ParseRating(t))
    /\ UNCHANGED <<ratings_len, cleaned_ratings, p_pc, varsStates, varsRating, varsJoin>>

\* lines 141-142
ParseStore ==
    /\ p_pc = "for"
    /\ Len(new_ratings) = ratings_len
    /\ cleaned_ratings' = Put(cleaned_ratings, "A", new_ratings)
    /\ p_pc' = "done"
    /\ UNCHANGED <<ratings_len, rating, new_ratings, varsStates, varsRating, varsJoin>>

NextParse ==
    \/ ParseLoad
    \/ ParseToken
    \/ ParseStore

SpecParse == Init /\ [][NextParse]_vars

\* ------------------------------------------------- claims on parse_ratings
Slashes(s) == {k \in 1..Len(s) : s[k] = "/"}
First(S) == CHOOSE k \in S : \A j \in S : k <= j
BeforeFirstSlash(s) == SubSeq(s, 1, First(Slashes(s)) - 1)
AllDigits(s) == s # <<>> /\ \A k \in 1..Len(s) : IsDigit(s[k])

\* the token has the form <int>/<digits>
MatchesIntSlashDigits(t) ==
    /\ t.kind = "str"
    /\ Cardinality(Slashes(t.text)) = 1
    /\ AllDigits(Unsigned(BeforeFirstSlash(t.text)))
    /\ AllDigits(SubSeq(t.text, First(Slashes(t.text)) + 1, Len(t.text)))

LastParsed == new_ratings[Len(new_ratings)]

\* C7 as stated: a token of the form <int>/<digits> parses to its leading
\* integer and every other token to 0; the output is as long as the input.
C7_MatchOrZero ==
    /\ (p_pc \in {"for", "done"} /\ new_ratings # <<>>) =>
         LastParsed = IF MatchesIntSlashDigits(rating)
                      THEN IntValue(BeforeFirstSlash(rating.text))
                      ELSE 0
    /\ p_pc = "done" => Len(Get(cleaned_ratings, "A")) = ratings_len

\* What the code computes (lines 132-140): a string token with a "/" whose
\* text before the first "/" is an integer literal gives that integer,
\* whatever follows the "/"; every other token gives 0; the output is as long
\* as the input.
ParsedValueOfCode ==
    /\ (p_pc \in {"for", "done"} /\ new_ratings # <<>>) =>
         LastParsed = IF /\ rating.kind = "str"
                         /\ Slashes(rating.text) # {}
                         /\ IsIntLiteral(BeforeFirstSlash(rating.text))
                      THEN IntValue(BeforeFirstSlash(rating.text))
                      ELSE 0
    /\ Len(new_ratings) <= ratings_len
    /\ p_pc = "done" => Len(Get(cleaned_ratings, "A")) = ratings_len

\* C8 as stated: every parsed value is a non-negative integer.
C8_NonNegative ==
    \A k \in 1..Len(new_ratings) : new_ratings[k] \in Nat

\* =================================================================
\* plot_linear_regression
\* =================================================================
JoinNames == 1..MaxJoinNames

TuitionDicts == {{<<n, 1000 * n>> : n \in S} : S \in SUBSET JoinNames}
ScoreDicts == {{<<n, 2 * n + 3>> : n \in S} : S \in SUBSET JoinNames}

\* line 217
CommonUnis(t, e) == Keys(t) \cap Keys(e)

AppendYMut(ys, v) == <<v>> \o ys
\* line 225
AppendY(ys, v) == Append(ys, v)

\* lines 208-222
JoinLoad ==
    /\ j_pc \in {"call", "done"}
    /\ tuition_data' \in TuitionDicts
    /\ edu_scores' \in ScoreDicts
    /\ common_unis' = CommonUnis(tuition_data', edu_scores')
    /\ x' = <<>>
    /\ y' = <<>>
    /\ names' = <<>>
    /\ j_pc' = "for"
    /\ UNCHANGED <<varsStates, varsRating, varsParse>>

\* lines 223-226: the set is iterated in an order the code does not choose
JoinStep ==
    /\ j_pc = "for"
    /\ \E uni \in common_unis :
         /\ x' = Append(x, Get(tuition_data, uni))
         /\ y' = AppendY(y, Get(edu_scores, uni))
         /\ names' = Append(names, uni)
         /\ common_unis' = common_unis \ {uni}
    /\ UNCHANGED <<tuition_data, edu_scores, j_pc, varsStates, varsRating, varsParse>>

\* line 228: the loop is over
JoinDone ==
    /\ j_pc = "for"
    /\ common_unis = {}
    /\ j_pc' = "done"
    /\ UNCHANGED <<tuition_data, edu_scores, common_unis, x, y, names, varsStates,
                   varsRating, varsParse>>

NextJoin ==
    \/ JoinLoad
    \/ JoinStep
    \/ JoinDone

SpecJoin == Init /\ [][NextJoin]_vars

\* C9: the three sequences have equal length, hold each name of both
\* mappings exactly once and no other name, and at each index the tuition
\* and the score of the name at that index.
C9_ParallelJoin ==
    /\ Len(x) = Len(names)
    /\ Len(y) = Len(names)
    /\ \A i \in 1..Len(names) :
         /\ <<names[i], x[i]>> \in tuition_data
         /\ <<names[i], y[i]>> \in edu_scores
    /\ j_pc = "done" =>
         \A n \in JoinNames :
            Cardinality({i \in 1..Len(names) : names[i] = n})
                = IF n \in Keys(tuition_data) /\ n \in Keys(edu_scores) THEN 1 ELSE 0

\* tuition {1, 2, 3} joined with scores {1, 3}: two names, 2 left out
C9_Witness ==
    /\ j_pc = "done"
    /\ Keys(tuition_data) = {1, 2, 3}
    /\ Keys(edu_scores) = {1, 3}
    /\ Len(names) = 2
    /\ x = <<3000, 1000>>
    /\ y = <<9, 5>>
====
